---- MODULE Spec2Model ----
(***************************************************************************)
(* Trial synchronization pipeline of ax_spectral_optimizator.              *)
(*                                                                         *)
(* One orchestrator thread (real_match in experiments/spectral_matching.py *)
(* or real_temp in experiments/maximize_temperature.py) drives trials      *)
(* through propose -> save txt -> wait/clear -> convert -> wait/clear ->   *)
(* configure -> acquire -> wait/clear -> evaluate -> save -> complete.     *)
(* One watchdog observer thread per handler of modules/file_monitor.py     *)
(* delivers file-creation events: on_created records the path and sets the *)
(* handler's threading.Event.                                              *)
(***************************************************************************)
EXTENDS Integers, Sequences, FiniteSets, TLC

\* ---------------------------------------------------------------- bounds
\* number of loop iterations, range(sobol + NUM_TRIALS_FB)
NumTrials == 2
\* number of creation events the filesystem layer may deliver a second time
MaxDup == 1
\* largest file number the environment creates in a watched directory
MaxFile == 0
\* largest trial index handed to save_indi_trials
MaxIdx == 10
\* largest number of points of a spectrum
MaxPoints == 3
\* largest number of trials whose error is logged in one run
MaxRecords == 3

\* ------------------------------------------------------------- constants
Handlers == {"txt", "json", "spec", "temp"}
Variants == {"match", "temp"}
NoPath == <<"none", -1>>
NoIdx == -1

VARIABLES
    variant,        \* which run function executes: real_match / real_temp
    pc,             \* position of the orchestrator thread
    trial,          \* loop variable of "for trial in range(...)"
    trial_idx,      \* local trial_idx (NoIdx while unbound)
    json_data,      \* truthiness of json_data returned by txt_to_json (step 9)
    flag,           \* handler -> threading.Event flag
    latest,         \* handler -> latest_txt_path / latest_json_path
    pending,        \* handler -> creation events emitted, not yet dispatched
    files,          \* artifact files that exist on disk
    observers,      \* handlers whose Observer thread is running
    picoOn,         \* light source output state
    pico_bound,     \* local "pico" is bound
    wrong_limits,   \* local wrong_limits
    propagating,    \* an exception is in flight through the finally block
    ax_cur,         \* AxIntegration.current_trial_index (NoIdx = None)
    ax_next,        \* next trial index the Ax client hands out
    ax_done,        \* keys of AxIntegration.trial_data
    ledger,         \* the in-memory list "trials"
    setup_ok,       \* locals ax, maya, handlers (and tsp01) are bound
    dupLeft,        \* duplicate deliveries the environment may still inject
    hist,           \* observation record (not program state)
    cv,             \* one call of txt_to_json: its locals and what it did
    cmp,            \* one call of calculate_error_spec / calculate_loss
    lg,             \* the error file of a run and what lowest_error_file read
    oc              \* on_created calls in progress, statement by statement

vars == <<variant, pc, trial, trial_idx, json_data, flag, latest, pending,
          files, observers, picoOn, pico_bound, wrong_limits, propagating,
          ax_cur, ax_next, ax_done, ledger, setup_ok, dupLeft, hist, cv, cmp, lg,
          oc>>

\* state of the run function and its watchers
main == <<variant, pc, trial, trial_idx, json_data, flag, latest, pending,
          files, observers, picoOn, pico_bound, wrong_limits, propagating,
          ax_cur, ax_next, ax_done, ledger, setup_ok, dupLeft, hist>>

\* state of the function calls studied on their own
calls == <<cv, cmp, lg, oc>>

calls_but_oc == <<cv, cmp, lg>>

\* no call of txt_to_json / of the comparator is being followed
NoCall == [state |-> "none"]

\* ------------------------------------------------- FileEventBridge parts
\* directory (and therefore handler) a path belongs to
DirOf(path) == path[1]

\* the handlers whose observers real_match / real_temp start
StartedObservers(v) ==
    IF v = "match" THEN {"txt", "json", "spec"} ELSE {"txt", "json", "spec", "temp"}

\* threading.Event.set() as called by on_created
Event_set(fl, h) == [fl EXCEPT ![h] = TRUE]

\* threading.Event.clear() as called by the orchestrator
Event_clear_noop(fl, h) == fl
Event_clear_all(fl, h) == [x \in Handlers |-> FALSE]
Event_clear(fl, h) == [fl EXCEPT ![h] = FALSE]

\* threading.Event.wait() without timeout: returns only when the flag is set
Event_wait_timeout(fl, h) == TRUE
Event_wait(fl, h) == fl[h]

\* on_created: self.latest_*_path = event.src_path
OnCreatedPath(lt, h, path) == [lt EXCEPT ![h] = path]

\* extension of a path; kinds other than the four artifacts end in ".log"
ExtOf(path) ==
    CASE path[1] \in {"txt", "temp"}  -> ".txt"
      [] path[1] \in {"json", "spec"} -> ".json"
      [] OTHER                        -> ".log"

\* the extension each handler filters on
HandlerExt(h) == IF h \in {"txt", "temp"} THEN ".txt" ELSE ".json"

\* a watchdog creation event for a regular file
FileEvent(path) == [src_path |-> path, is_directory |-> FALSE]

\* the guard of on_created
Accepts_anyFile(h, ev) == ~ev.is_directory
Accepts_anyName(h, ev) == ExtOf(ev.src_path) = HandlerExt(h)
Accepts(h, ev) == ~ev.is_directory /\ ExtOf(ev.src_path) = HandlerExt(h)

\* on_created of handler h: the latest paths and the flags it leaves behind
OnCreatedLatest(lt, h, ev) ==
    IF Accepts(h, ev) THEN OnCreatedPath(lt, h, ev.src_path) ELSE lt
OnCreatedFlag(fl, h, ev) ==
    IF Accepts(h, ev) THEN Event_set(fl, h) ELSE fl

\* open(path, "w"): creates the file when it does not exist
FilesAfterWrite(fs, path) == fs \cup {path}

\* a creation event is emitted only for a file that did not exist and only
\* while the directory's observer runs; an overwrite emits no creation event
PendingAfterWrite(pd, fs, obs, path) ==
    IF path \notin fs /\ DirOf(path) \in obs
    THEN [pd EXCEPT ![DirOf(path)] = Append(@, path)]
    ELSE pd

\* ------------------------------------------------------ artifact paths
TxtPath(idx) == <<"txt", idx>>        \* Result_trial_{trial_idx}.txt
JsonPath(idx) == <<"json", idx>>      \* Result_trial_{trial_idx}.json
SpecPath(idx) == <<"spec", idx + 1>>  \* Spectrum_trial_{trial_idx+1}.json
TempPath(n) == <<"temp", n>>          \* Trial_{n}_Stab_Temp.txt

\* ------------------------------------------------------ ArtifactConverter
\* what reading the file yields: readable and well formed, empty on every
\* attempt, content without trial line / parameters, or no such file
ReadOutcomes == {"valid", "empty", "malformed", "missing"}

\* txt_to_json: TRUE iff it returns (json_data, trial_number), FALSE for
\* (None, None); open(None) raises TypeError, absorbed by the retry loop
txt_to_json(path, outcome) == path # NoPath /\ path \in files /\ outcome = "valid"

\* ------------------------------------------------------ orchestrator flow
\* deviations from the statement order of the loop body (not the code)
FlowNext_readFirst(v, p) ==
    CASE p = "propose"    -> "save_txt"
      [] p = "save_txt"   -> "wait_txt"
      [] p = "wait_txt"   -> "convert"
      [] p = "convert"    -> "clear_txt"
      [] p = "clear_txt"  -> "wait_json"
      [] p = "wait_json"  -> "clear_json"
      [] p = "clear_json" -> "configure"
      [] p = "configure"  -> "acquire"
      [] p = "acquire"    -> "wait_spec"
      [] p = "wait_spec"  -> "clear_spec"
      [] p = "clear_spec" -> IF v = "match" THEN "evaluate" ELSE "monitor"
      [] p = "monitor"    -> "wait_temp"
      [] p = "wait_temp"  -> "clear_temp"
      [] p = "clear_temp" -> "evaluate"
      [] p = "evaluate"   -> "save_data"
      [] p = "save_data"  -> "complete"
      [] OTHER            -> "fin_off"

FlowNext_skipSave(v, p) ==
    CASE p = "propose"    -> "save_txt"
      [] p = "save_txt"   -> "wait_txt"
      [] p = "wait_txt"   -> "clear_txt"
      [] p = "clear_txt"  -> "convert"
      [] p = "convert"    -> "wait_json"
      [] p = "wait_json"  -> "clear_json"
      [] p = "clear_json" -> "configure"
      [] p = "configure"  -> "acquire"
      [] p = "acquire"    -> "wait_spec"
      [] p = "wait_spec"  -> "clear_spec"
      [] p = "clear_spec" -> IF v = "match" THEN "evaluate" ELSE "monitor"
      [] p = "monitor"    -> "wait_temp"
      [] p = "wait_temp"  -> "clear_temp"
      [] p = "clear_temp" -> "evaluate"
      [] p = "evaluate"   -> "complete"
      [] OTHER            -> "fin_off"

FlowNext_noJsonWait(v, p) ==
    CASE p = "propose"    -> "save_txt"
      [] p = "save_txt"   -> "wait_txt"
      [] p = "wait_txt"   -> "clear_txt"
      [] p = "clear_txt"  -> "convert"
      [] p = "convert"    -> "configure"
      [] p = "configure"  -> "acquire"
      [] p = "acquire"    -> "wait_spec"
      [] p = "wait_spec"  -> "clear_spec"
      [] p = "clear_spec" -> IF v = "match" THEN "evaluate" ELSE "monitor"
      [] p = "monitor"    -> "wait_temp"
      [] p = "wait_temp"  -> "clear_temp"
      [] p = "clear_temp" -> "evaluate"
      [] p = "evaluate"   -> "save_data"
      [] p = "save_data"  -> "complete"
      [] OTHER            -> "fin_off"

FlowNext_noClear(v, p) ==
    CASE p = "propose"    -> "save_txt"
      [] p = "save_txt"   -> "wait_txt"
      [] p = "wait_txt"   -> "clear_txt"
      [] p = "clear_txt"  -> "convert"
      [] p = "convert"    -> "wait_json"
      [] p = "wait_json"  -> "configure"
      [] p = "configure"  -> "acquire"
      [] p = "acquire"    -> "wait_spec"
      [] p = "wait_spec"  -> "clear_spec"
      [] p = "clear_spec" -> IF v = "match" THEN "evaluate" ELSE "monitor"
      [] p = "monitor"    -> "wait_temp"
      [] p = "wait_temp"  -> "clear_temp"
      [] p = "clear_temp" -> "evaluate"
      [] p = "evaluate"   -> "save_data"
      [] p = "save_data"  -> "complete"
      [] OTHER            -> "fin_off"

\* statement order inside one loop iteration
FlowNext(v, p) ==
    CASE p = "propose"    -> "save_txt"
      [] p = "save_txt"   -> "wait_txt"
      [] p = "wait_txt"   -> "clear_txt"
      [] p = "clear_txt"  -> "convert"
      [] p = "convert"    -> "wait_json"
      [] p = "wait_json"  -> "clear_json"
      [] p = "clear_json" -> "configure"
      [] p = "configure"  -> "acquire"
      [] p = "acquire"    -> "wait_spec"
      [] p = "wait_spec"  -> "clear_spec"
      [] p = "clear_spec" -> IF v = "match" THEN "evaluate" ELSE "monitor"
      [] p = "monitor"    -> "wait_temp"
      [] p = "wait_temp"  -> "clear_temp"
      [] p = "clear_temp" -> "evaluate"
      [] p = "evaluate"   -> "save_data"
      [] p = "save_data"  -> "complete"
      [] OTHER            -> "fin_off"

\* the for loop: next iteration, or fall out of the loop into finally
LoopNextPc(t) == IF t + 1 < NumTrials THEN "propose" ELSE "fin_off"
LoopNextTrial(t) == IF t + 1 < NumTrials THEN t + 1 ELSE t

WaitPcs == {"wait_txt", "wait_json", "wait_spec", "wait_temp"}
ClearPcs == {"clear_txt", "clear_json", "clear_spec", "clear_temp"}
FinallyPcs == {"fin_off", "fin_monitor", "fin_report", "fin_stop"}
TerminalPcs == {"returned", "raised"}
HandlerOf(p) ==
    CASE p \in {"wait_txt", "clear_txt"}   -> "txt"
      [] p \in {"wait_json", "clear_json"} -> "json"
      [] p \in {"wait_spec", "clear_spec"} -> "spec"
      [] OTHER                             -> "temp"

\* =================================================== ArtifactConverter text
\* Text is a sequence of one-character strings; a file is a sequence of lines
Digits == <<"0", "1", "2", "3", "4", "5", "6", "7", "8", "9">>
IsDigit(c) == \E d \in 1 .. 10 : Digits[d] = c
DigitVal(c) == (CHOOSE d \in 1 .. 10 : Digits[d] = c) - 1

\* str(n) of a non-negative int, as an f-string or repr() writes it
RECURSIVE ToDecimal(_)
ToDecimal(n) ==
    IF n < 10 THEN <<Digits[n + 1]>>
    ELSE Append(ToDecimal(n \div 10), Digits[(n % 10) + 1])

\* value of a decimal literal
RECURSIVE ParseDecimal(_)
ParseDecimal(s) ==
    IF s = <<>> THEN 0
    ELSE 10 * ParseDecimal(SubSeq(s, 1, Len(s) - 1)) + DigitVal(s[Len(s)])

UpperCase == <<"A", "E", "I", "L", "M", "P", "R", "S", "T">>
LowerCase == <<"a", "e", "i", "l", "m", "p", "r", "s", "t">>
\* str.lower()
Lower(c) ==
    IF \E k \in 1 .. Len(UpperCase) : UpperCase[k] = c
    THEN LowerCase[CHOOSE k \in 1 .. Len(UpperCase) : UpperCase[k] = c]
    ELSE c
LowerStr(s) == [k \in 1 .. Len(s) |-> Lower(s[k])]

SetMin(S) == CHOOSE x \in S : \A y \in S : x <= y
SetMax(S) == CHOOSE x \in S : \A y \in S : x >= y

\* str.startswith
StartsWith(s, pre) == Len(s) >= Len(pre) /\ SubSeq(s, 1, Len(pre)) = pre

\* str.find, 1-based; 0 when absent
Find(s, sub) ==
    LET hits == {k \in 1 .. (Len(s) - Len(sub) + 1) :
                    SubSeq(s, k, k + Len(sub) - 1) = sub}
    IN  IF hits = {} THEN 0 ELSE SetMin(hits)

\* str.strip() for blanks
Strip(s) ==
    LET keep == {k \in 1 .. Len(s) : s[k] # " "}
    IN  IF keep = {} THEN <<>> ELSE SubSeq(s, SetMin(keep), SetMax(keep))

\* the longest run of digits of s that starts at position k
DigitRun(s, k) ==
    LET stop == {j \in k .. Len(s) : ~IsDigit(s[j])}
    IN  SubSeq(s, k, IF stop = {} THEN Len(s) ELSE SetMin(stop) - 1)

\* str.split(c) for a one-character separator
RECURSIVE SplitChar(_, _)
SplitChar(s, c) ==
    LET k == Find(s, <<c>>)
    IN  IF k = 0 THEN <<s>>
        ELSE <<SubSeq(s, 1, k - 1)>> \o SplitChar(SubSeq(s, k + 1, Len(s)), c)

TrialWord == <<"T", "r", "i", "a", "l">>
ParametersWord == <<"P", "a", "r", "a", "m", "e", "t", "e", "r", "s", ":">>
ErrorLine == <<"E", "r", "r", "o", "r", ":", " ", "N", "o", "n", "e">>
TempLine == <<"T", "e", "m", "p", ":", " ", "N", "o", "n", "e">>

\* ---------------------------------------------------- save_indi_trials
\* the number written on the "Trial" line for trial index i
TrialLabel_raw(i) == i
TrialLabel(i) == i + 1

\* repr() of one item and of a dict with str keys and int values
ReprItem(kv) == <<"'">> \o kv[1] \o <<"'", ":", " ">> \o ToDecimal(kv[2])
RECURSIVE ReprItems(_)
ReprItems(pm) ==
    IF Len(pm) = 1 THEN ReprItem(pm[1])
    ELSE ReprItem(pm[1]) \o <<",", " ">> \o ReprItems(Tail(pm))
Repr(pm) == <<"{">> \o (IF pm = <<>> THEN <<>> ELSE ReprItems(pm)) \o <<"}">>

\* the lines save_indi_trials(i, path, parameterization, None) writes; the
\* third line depends on the objective flag of the configuration
save_indi_trials(i, pm, objective) ==
    <<TrialWord \o <<" ">> \o ToDecimal(TrialLabel(i)),
      ParametersWord \o <<" ">> \o Repr(pm)>>
    \o (CASE objective = "error" -> <<ErrorLine>>
          [] objective = "temp"  -> <<TempLine>>
          [] OTHER               -> <<>>)

\* ---------------------------------------------------------- txt_to_json
MAX_ATTEMPTS == 5

\* re.search(r"Trial (\d+)", line, re.IGNORECASE).group(1); <<>> for no match
TrialMatch(line) ==
    LET hits == {k \in 1 .. (Len(line) - 6) :
                    /\ LowerStr(SubSeq(line, k, k + 5)) = LowerStr(TrialWord) \o <<" ">>
                    /\ IsDigit(line[k + 6])}
    IN  IF hits = {} THEN <<>> ELSE DigitRun(line, SetMin(hits) + 6)

\* line.split("Parameters:")[1]; ok is FALSE for the IndexError
SplitParameters(line) ==
    LET k == Find(line, ParametersWord)
        rest == SubSeq(line, k + Len(ParametersWord), Len(line))
        k2 == Find(rest, ParametersWord)
    IN  IF k = 0 THEN [ok |-> FALSE, text |-> <<>>]
        ELSE [ok |-> TRUE,
              text |-> IF k2 = 0 THEN rest ELSE SubSeq(rest, 1, k2 - 1)]

NoParameters == [ok |-> FALSE, items |-> <<>>]

\* eval() of one "'key': value" item of a dict literal
EvalItem(part) ==
    LET kv == SplitChar(part, ":")
        key == IF Len(kv) = 2 THEN Strip(kv[1]) ELSE <<>>
        val == IF Len(kv) = 2 THEN Strip(kv[2]) ELSE <<>>
        good == /\ Len(kv) = 2
                /\ Len(key) >= 2 /\ key[1] = "'" /\ key[Len(key)] = "'"
                /\ \A j \in 2 .. (Len(key) - 1) : key[j] # "'"
                /\ val # <<>> /\ \A j \in 1 .. Len(val) : IsDigit(val[j])
                /\ (Len(val) = 1 \/ val[1] # "0")
    IN  IF good
        THEN [ok |-> TRUE,
              kv |-> <<SubSeq(key, 2, Len(key) - 1), ParseDecimal(val)>>]
        ELSE [ok |-> FALSE, kv |-> <<>>]

\* eval(param_str) for the literals repr() of a str -> int dict produces;
\* anything else raises (ok = FALSE)
Eval(text) ==
    LET t == Strip(text)
        inner == IF Len(t) >= 2 THEN Strip(SubSeq(t, 2, Len(t) - 1)) ELSE <<>>
        parts == SplitChar(inner, ",")
    IN  IF Len(t) < 2 \/ t[1] # "{" \/ t[Len(t)] # "}" THEN NoParameters
        ELSE IF inner = <<>> THEN [ok |-> TRUE, items |-> <<>>]
        ELSE IF \A k \in 1 .. Len(parts) : EvalItem(parts[k]).ok
             THEN [ok |-> TRUE,
                   items |-> [k \in 1 .. Len(parts) |-> EvalItem(parts[k]).kv]]
             ELSE NoParameters

\* "if line.lower().startswith(...)" tests of the line loop
IsTrialLine(line) == StartsWith(LowerStr(line), LowerStr(TrialWord))
IsParametersLine(line) == StartsWith(LowerStr(line), LowerStr(ParametersWord))

\* the body of "for line in lines" applied to one line
LineStep(st, raw) ==
    LET line == Strip(raw)
        tn == IF IsTrialLine(line) /\ TrialMatch(line) # <<>>
              THEN TrialMatch(line) ELSE st.trial_number
        sp == SplitParameters(line)
        pa == IF IsParametersLine(line)
              THEN (IF sp.ok THEN Eval(sp.text) ELSE NoParameters)
              ELSE st.parameters
    IN  [trial_number |-> tn, parameters |-> pa]

RECURSIVE LineLoop(_, _)
LineLoop(st, lines) ==
    IF lines = <<>> THEN st ELSE LineLoop(LineStep(st, Head(lines)), Tail(lines))

\* trial_number and parameters after the line loop
ParseLines(lines) ==
    LineLoop([trial_number |-> <<>>, parameters |-> NoParameters], lines)

\* re.search(r'\d+', channel).group(); <<>> when there is no digit
ChannelDigits(channel) ==
    LET hits == {k \in 1 .. Len(channel) : IsDigit(channel[k])}
    IN  IF hits = {} THEN <<>> ELSE DigitRun(channel, SetMin(hits))

NoneNone == [ok |-> FALSE, data |-> <<>>, trial_number |-> <<>>]

\* step 4: validation and conversion of what the line loop found
Validate(st) ==
    IF st.trial_number = <<>> THEN NoneNone
    ELSE IF ~st.parameters.ok \/ st.parameters.items = <<>> THEN NoneNone
    ELSE IF \E k \in 1 .. Len(st.parameters.items) :
                ChannelDigits(st.parameters.items[k][1]) = <<>>
         THEN NoneNone
         ELSE [ok |-> TRUE,
               data |-> [k \in 1 .. Len(st.parameters.items) |->
                            [channel |-> ChannelDigits(st.parameters.items[k][1]),
                             value |-> st.parameters.items[k][2]]],
               trial_number |-> st.trial_number]

\* "if attempt_count<MAX_ATTEMPTS": sleep and continue, else return
ShouldRetry_inclusive(n) == n <= MAX_ATTEMPTS
ShouldRetry(n) == n < MAX_ATTEMPTS

\* what follows content that fails validation: "return None, None"
OnInvalidContent_retry(n) == IF n < MAX_ATTEMPTS THEN "retry" ELSE "return"
OnInvalidContent(n) == "return"

\* ------------------------------------------------------------------ Init
HistInit ==
    [ excAt        |-> NoIdx,   \* loop index whose step raised
      proposedFor  |-> {},      \* loop indices for which Ax was asked
      hwFail       |-> FALSE,   \* hardware failure seen, turn_off not yet called
      skipped      |-> FALSE,   \* some trial left the iteration by "continue"
      interrupted  |-> FALSE,   \* KeyboardInterrupt was raised
      awaiting     |-> "none",  \* handler whose wait returned, clear outstanding
      cleared      |-> [h \in Handlers |-> FALSE], \* cleared since last wait
      snap         |-> [h \in Handlers |-> NoPath], \* latest path at the clear
      lateSet      |-> [h \in Handlers |-> FALSE], \* event dispatched after clear
      midPath      |-> [h \in Handlers |-> NoPath], \* event dispatched between wait and clear
      relPath      |-> [h \in Handlers |-> NoPath], \* latest path when the wait returned
      lastRead     |-> [h \in Handlers |-> NoPath], \* path a step read after the wait
      readCleared  |-> [h \in Handlers |-> FALSE], \* flag was cleared at the read
      cfgSrc       |-> NoPath,  \* path the hardware was configured from
      done         |-> {},      \* pipeline steps done in the current trial
      txtWrites    |-> 0,       \* writes of the txt artifact in this trial
      created      |-> [h \in Handlers |-> 0], \* files created per kind, this trial
      lateCreate   |-> FALSE,   \* an artifact was created after its wait returned
      staleWait    |-> FALSE,   \* the txt wait of this trial returned on a late event
      completedStale |-> FALSE, \* a trial was completed from an earlier trial's path
      deviceFail   |-> FALSE,   \* a device failed to initialise or configure at setup
      everOn       |-> FALSE,   \* pico.turn_on() has succeeded
      bestAsked    |-> FALSE,   \* the finally block reached ax.get_best_parameters()
      setSpectrum  |-> 0,       \* set_spectrum calls on the device in this trial
      offCalled    |-> FALSE,   \* turn_off was called since the last call driving the source
      openBy       |-> "none",  \* what ended the loop between the append and the completion
      lastEvent    |-> [h |-> "none", src_path |-> NoPath,
                       is_directory |-> FALSE] \* last event the environment raised directly
    ]

MainInit ==
    /\ variant \in Variants
    /\ pc = "setup"
    /\ trial = 0
    /\ trial_idx = NoIdx
    /\ json_data = FALSE
    /\ flag = [h \in Handlers |-> FALSE]
    /\ latest = [h \in Handlers |-> NoPath]
    /\ pending = [h \in Handlers |-> <<>>]
    /\ files = {}
    /\ observers = {}
    /\ picoOn = FALSE
    /\ pico_bound = FALSE
    /\ wrong_limits = FALSE
    /\ propagating = FALSE
    /\ ax_cur = NoIdx
    /\ ax_next = 0
    /\ ax_done = {}
    /\ ledger = <<>>
    /\ setup_ok = FALSE
    /\ dupLeft = MaxDup
    /\ hist = HistInit

\* the watchers on their own: observers started, nothing produced yet
WatchMainInit ==
    /\ variant \in Variants
    /\ pc = "turn_on"
    /\ trial = 0
    /\ trial_idx = NoIdx
    /\ json_data = FALSE
    /\ flag = [h \in Handlers |-> FALSE]
    /\ latest = [h \in Handlers |-> NoPath]
    /\ pending = [h \in Handlers |-> <<>>]
    /\ files = {}
    /\ observers = StartedObservers(variant)
    /\ picoOn = FALSE
    /\ pico_bound = TRUE
    /\ wrong_limits = FALSE
    /\ propagating = FALSE
    /\ ax_cur = NoIdx
    /\ ax_next = 0
    /\ ax_done = {}
    /\ ledger = <<>>
    /\ setup_ok = TRUE
    /\ dupLeft = MaxDup
    /\ hist = HistInit

InitWatch ==
    /\ WatchMainInit
    /\ cv = NoCall
    /\ cmp = NoCall
    /\ lg = NoCall
    /\ oc = NoCall

Init ==
    /\ MainInit
    /\ cv = NoCall
    /\ cmp = NoCall
    /\ lg = NoCall
    /\ oc = NoCall

\* ------------------------------------------- inputs of the converter
ChannelNames ==
    { <<"l", "e", "d", "_", "1">>, <<"l", "e", "d", "_", "1", "2">>,
      <<"c", "h", "3">> }
ParamValues == {0, 105}

\* parameterizations: one or two channels, in the order Ax returned them
ParamMaps ==
    { <<<<c, v>>>> : c \in ChannelNames, v \in ParamValues }
    \cup { pm \in { <<<<c1, v1>>, <<c2, v2>>>> :
                        c1 \in ChannelNames, c2 \in ChannelNames,
                        v1 \in ParamValues, v2 \in ParamValues } :
              pm[1][1] # pm[2][1] }

NoSrc == [i |-> -1, pm |-> <<>>]

\* files written by save_indi_trials
WrittenFiles ==
    { [lines |-> save_indi_trials(i, pm, ob), src |-> [i |-> i, pm |-> pm]] :
          i \in 0 .. MaxIdx, pm \in ParamMaps, ob \in {"error", "temp", "none"} }

\* lines of other origin: the prefix in three letter cases, with and
\* without a number or a mapping literal
TrialLines ==
    { <<"T", "r", "i", "a", "l", " ", "3">>, <<"t", "r", "i", "a", "l", " ", "3">>,
      <<"T", "R", "I", "A", "L", " ", "3">>, TrialWord }
ParamPrefixes ==
    { ParametersWord,
      <<"p", "a", "r", "a", "m", "e", "t", "e", "r", "s", ":">>,
      <<"P", "A", "R", "A", "M", "E", "T", "E", "R", "S", ":">> }
ParamPayloads ==
    { <<" ", "{", "'", "l", "e", "d", "_", "1", "'", ":", " ", "7", "}">>,
      <<" ", "{", "}">>,
      <<" ", "{", "'", "l", "e", "d", "_", "1", "'", ":">>,
      <<>> }
ParamLines == { pre \o pay : pre \in ParamPrefixes, pay \in ParamPayloads }
OtherFiles ==
    { [lines |-> t \o q, src |-> NoSrc] :
          t \in {<<>>} \cup { <<l>> : l \in TrialLines },
          q \in { <<l>> : l \in ParamLines \cup {ErrorLine} } }

\* what the five reads of the file yield, attempt by attempt
ReadResults == {"missing", "ioerror", "empty", "ok"}
AllScripts == [1 .. MAX_ATTEMPTS -> ReadResults]
AlwaysReadable == [k \in 1 .. MAX_ATTEMPTS |-> "ok"]

\* files whose reads are tried under every script
ScriptedFiles ==
    { f \in WrittenFiles : f.src.i = 0 /\ Len(f.src.pm) = 1 /\ Len(f.lines) = 2
                           /\ f.src.pm[1][2] = 0 /\ Len(f.src.pm[1][1]) = 3 }
    \cup { f \in OtherFiles : f.lines = <<TrialWord \o <<" ", "3">>, ErrorLine>> }

\* txt_to_json is entered: attempt_count = 0
InitConv ==
    /\ MainInit
    /\ variant = "match"
    /\ cmp = NoCall
    /\ lg = NoCall
    /\ oc = NoCall
    /\ \E f \in WrittenFiles \cup OtherFiles, sc \in AllScripts :
          /\ sc = AlwaysReadable \/ f \in ScriptedFiles
          /\ cv = [state |-> "running", lines |-> f.lines, src |-> f.src,
                   script |-> sc, attempt_count |-> 0, log |-> <<>>,
                   result |-> NoneNone]

\* one iteration of "while attempt_count < MAX_ATTEMPTS"
ReadAttempt ==
    /\ cv.state = "running"
    /\ cv.attempt_count < MAX_ATTEMPTS
    /\ \E n \in {cv.attempt_count + 1}, res \in {Validate(ParseLines(cv.lines))} :
          \E rd \in {cv.script[n]} :
          \E retry \in {\/ rd \in {"ioerror", "empty"} /\ ShouldRetry(n)
                        \/ rd = "ok" /\ ~res.ok /\ OnInvalidContent(n) = "retry"} :
             cv' = [cv EXCEPT
                      !.attempt_count = n,
                      !.log = IF retry THEN cv.log \o <<"read", "sleep">>
                                       ELSE Append(cv.log, "read"),
                      !.state = IF retry /\ n < MAX_ATTEMPTS
                                THEN "running" ELSE "returned",
                      !.result = IF rd = "ok" /\ res.ok THEN res ELSE NoneNone]
    /\ UNCHANGED <<main, cmp, lg, oc>>

\* ====================================================== SpectrumComparator
\* A spectrum is the dict the loaders return, as the sequence of its items
\* <<wavelength, value>> in insertion order; wavelengths are held in tenths
\* of a nanometre, so 14 stands for the key 1.4
Tenths == {12, 14, 16, 30}
Intensities == {1, 5}

\* int(round(float(w))): Python 3 rounds halves to the even neighbour
RoundHalfEven_cut(t) == t \div 10
RoundHalfEven(t) ==
    LET q == t \div 10
        r == t % 10
    IN  IF r < 5 THEN q
        ELSE IF r > 5 THEN q + 1
        ELSE IF q % 2 = 0 THEN q ELSE q + 1

\* int(float(k)) of a non-negative key: the fraction is cut off
Truncate(t) == t \div 10

\* process_spectra: round every wavelength, keep the first point of each
RECURSIVE process_spectra(_)
process_spectra(sp) ==
    IF sp = <<>> THEN <<>>
    ELSE LET init == process_spectra(SubSeq(sp, 1, Len(sp) - 1))
             pt == sp[Len(sp)]
             w == RoundHalfEven(pt[1])
         IN  IF \E k \in 1 .. Len(init) : init[k][1] = w
             THEN init ELSE Append(init, <<w, pt[2]>>)

\* {str(item["wavelengths"]): item["value"] for item in processed_spectra};
\* a key is held as the integer whose decimal string it is
CurrentCleaned(sp) ==
    LET ps == process_spectra(sp)
    IN  [w \in {ps[k][1] : k \in 1 .. Len(ps)} |->
            ps[CHOOSE k \in 1 .. Len(ps) : ps[k][1] = w][2]]

\* {str(int(float(k))): v for k, v in target_values.items()}: a later item
\* with the same key replaces the earlier one
TargetCleaned(sp) ==
    [w \in {Truncate(sp[k][1]) : k \in 1 .. Len(sp)} |->
        sp[SetMax({k \in 1 .. Len(sp) : Truncate(sp[k][1]) = w})][2]]

\* sorted(common_keys, key=int)
RECURSIVE SortedKeys(_)
SortedKeys(S) ==
    IF S = {} THEN <<>> ELSE <<SetMin(S)>> \o SortedKeys(S \ {SetMin(S)})

\* (obj - min) / (max - min + 1e-10) agree in every component; with integer
\* intensities a*(r2 + eps) = b*(r1 + eps) holds iff the integer parts and
\* the multiples of eps agree
SameNormalised(obj1, obj2) ==
    LET S1 == {obj1[k] : k \in 1 .. Len(obj1)}
        S2 == {obj2[k] : k \in 1 .. Len(obj2)}
        r1 == SetMax(S1) - SetMin(S1)
        r2 == SetMax(S2) - SetMin(S2)
    IN  \A k \in 1 .. Len(obj1) :
            /\ (obj1[k] - SetMin(S1)) * r2 = (obj2[k] - SetMin(S2)) * r1
            /\ obj1[k] - SetMin(S1) = obj2[k] - SetMin(S2)

\* calculate_error_spec / calculate_loss: raised for the ValueError, else
\* the compared vectors and whether the L2 norm of their difference is 0
calculate_error_spec(current, target) ==
    LET cc == CurrentCleaned(current)
        tc == TargetCleaned(target)
        keys == SortedKeys(DOMAIN cc \cap DOMAIN tc)
        obj1 == [k \in 1 .. Len(keys) |-> cc[keys[k]]]
        obj2 == [k \in 1 .. Len(keys) |-> tc[keys[k]]]
    IN  IF keys = <<>>
        THEN [raised |-> TRUE, keys |-> <<>>, obj1 |-> <<>>, obj2 |-> <<>>,
              zero |-> FALSE]
        ELSE [raised |-> FALSE, keys |-> keys, obj1 |-> obj1, obj2 |-> obj2,
              zero |-> SameNormalised(obj1, obj2)]

\* spectra of 1 .. MaxPoints points, listed by increasing wavelength
Spectra ==
    UNION { { sp \in [1 .. n -> Tenths \X Intensities] :
                \A k \in 1 .. (n - 1) : sp[k][1] < sp[k + 1][1] } :
            n \in 1 .. MaxPoints }

\* the spectra of a worked scenario: current {400.4: 10, 500.6: 20} and
\* target {"400": 12, "500": 18}
ScenarioCurrent == <<<<4004, 10>>, <<5006, 20>>>>
ScenarioTarget == <<<<4000, 12>>, <<5000, 18>>>>

\* the comparator is entered with a current and a target spectrum
InitCmp ==
    /\ MainInit
    /\ variant = "match"
    /\ cv = NoCall
    /\ lg = NoCall
    /\ oc = NoCall
    /\ \E c \in Spectra \cup {ScenarioCurrent}, t \in Spectra \cup {ScenarioTarget} :
          cmp = [state |-> "called", current |-> c, target |-> t,
                 result |-> [raised |-> FALSE, keys |-> <<>>, obj1 |-> <<>>,
                             obj2 |-> <<>>, zero |-> FALSE]]

\* the body of calculate_error_spec (calculate_loss has the same body)
Compare ==
    /\ cmp.state = "called"
    /\ \E res \in {calculate_error_spec(cmp.current, cmp.target)} :
          cmp' = [cmp EXCEPT !.state = IF res.raised THEN "raised" ELSE "returned",
                             !.result = res]
    /\ UNCHANGED <<main, cv, lg, oc>>

\* ============================================================ error file
\* error values of the trials, in whole units; str(float) writes "3.0"
ErrValues == {0, 3, 7, 12}

ErrorOfTrial == <<"E", "r", "r", "o", "r", " ", "o", "f", " ", "T", "r", "i", "a", "l">>
IsError == <<" ", "i", "s", " ", "E", "r", "r", "o", "r", ":", " ">>
LossOfTrial == <<"L", "o", "s", "s", " ", "o", "f", " ", "T", "r", "i", "a", "l">>
IsColon == <<" ", "i", "s", ":", " ">>

\* str() of a float with a whole value
FormatFloat(v) == ToDecimal(v) \o <<".", "0">>

\* float(text); ok is FALSE for the ValueError
ParseFloat(text) ==
    LET t == Strip(text)
        k == Find(t, <<".">>)
        ip == IF k = 0 THEN t ELSE SubSeq(t, 1, k - 1)
        fp == IF k = 0 THEN <<>> ELSE SubSeq(t, k + 1, Len(t))
        good == /\ ip # <<>>
                /\ \A j \in 1 .. Len(ip) : IsDigit(ip[j])
                /\ \A j \in 1 .. Len(fp) : fp[j] = "0"
    IN  IF good THEN [ok |-> TRUE, value |-> ParseDecimal(ip)]
        ELSE [ok |-> FALSE, value |-> 0]

\* the line save_error(i, path, current_error) appends
save_error(i, v) ==
    ErrorOfTrial \o <<" ">> \o ToDecimal(i + 1) \o IsError \o FormatFloat(v)

\* the text after the last blank: parts[0].split(" ")[-1]
LastWord(text) ==
    LET bl == {k \in 1 .. Len(text) : text[k] = " "}
    IN  IF bl = {} THEN text ELSE SubSeq(text, SetMax(bl) + 1, Len(text))

\* one line of the file under a reader that looks for lines starting with
\* prefix and splits them at sep: the error value, or ok = FALSE when the
\* line is skipped
ReadLine(line, prefix, sep) ==
    LET k == Find(line, sep)
        p0 == IF k = 0 THEN line ELSE SubSeq(line, 1, k - 1)
        p1 == IF k = 0 THEN <<>> ELSE SubSeq(line, k + Len(sep), Len(line))
        num == LastWord(p0)
    IN  IF /\ StartsWith(line, prefix)
           /\ k # 0
           /\ num # <<>> /\ \A j \in 1 .. Len(num) : IsDigit(num[j])
        THEN ParseFloat(p1)
        ELSE [ok |-> FALSE, value |-> 0]

Infinity == [inf |-> TRUE, value |-> 0]

\* min_error after the loop over the lines; float('inf') when no line counted
RECURSIVE MinOverLines(_, _, _)
MinOverLines(lines, prefix, sep) ==
    IF lines = <<>> THEN Infinity
    ELSE LET rest == MinOverLines(SubSeq(lines, 1, Len(lines) - 1), prefix, sep)
             cur == ReadLine(lines[Len(lines)], prefix, sep)
         IN  IF cur.ok /\ (rest.inf \/ cur.value < rest.value)
             THEN [inf |-> FALSE, value |-> cur.value] ELSE rest

\* find_lowest_loss(file)[1]
find_lowest_loss(lines) == MinOverLines(lines, LossOfTrial, IsColon)

\* find_lowest_error(file)[1]
find_lowest_error(lines) == MinOverLines(lines, ErrorOfTrial, IsError)

\* lowest_error_file: the value written after "Lowest_error --> "
lowest_error_file(lines) == find_lowest_loss(lines)

\* a spectral-matching run starts: the errors its trials will yield
InitLedger ==
    /\ MainInit
    /\ variant = "match"
    /\ cv = NoCall
    /\ cmp = NoCall
    /\ oc = NoCall
    /\ \E n \in 1 .. MaxRecords :
          \E errs \in [1 .. n -> ErrValues] :
             lg = [state |-> "running", errors |-> errs, file |-> <<>>,
                   lowest |-> Infinity]

\* step 13 of a trial: save_error(trial_idx, error_file, ax_objs[-1])
SaveError ==
    /\ lg.state = "running"
    /\ Len(lg.file) < Len(lg.errors)
    /\ lg' = [lg EXCEPT !.file = Append(@, save_error(Len(lg.file),
                                                       lg.errors[Len(lg.file) + 1]))]
    /\ UNCHANGED <<main, cv, cmp, oc>>

\* finally: lowest_error_file(lw_error_file, target, seed, error_file);
\* error_file is bound once a trial has reached step 13
LowestErrorFile ==
    /\ lg.state = "running"
    /\ lg.file # <<>>
    /\ lg' = [lg EXCEPT !.state = "reported",
                        !.lowest = lowest_error_file(lg.file)]
    /\ UNCHANGED <<main, cv, cmp, oc>>

\* ------------------------------------------------------- watcher threads
\* Observer thread of handler h dispatches the oldest pending creation
\* event: on_created records the path, then sets the Event
Deliver(h) ==
    /\ h \in observers
    /\ pending[h] # <<>>
    /\ latest' = OnCreatedLatest(latest, h, FileEvent(Head(pending[h])))
    /\ flag' = OnCreatedFlag(flag, h, FileEvent(Head(pending[h])))
    /\ pending' = [pending EXCEPT ![h] = Tail(@)]
    /\ hist' = [hist EXCEPT !.lateSet[h] =
                    IF Accepts(h, FileEvent(Head(pending[h])))
                    THEN hist.cleared[h] ELSE @,
                            !.midPath[h] =
                    IF Accepts(h, FileEvent(Head(pending[h]))) /\ hist.awaiting = h
                    THEN Head(pending[h]) ELSE @]
    /\ UNCHANGED <<calls, variant, pc, trial, trial_idx, json_data, files, observers,
                   picoOn, pico_bound, wrong_limits, propagating, ax_cur,
                   ax_next, ax_done, ledger, setup_ok, dupLeft>>

\* Anything is created in the directory handler h watches: a regular file
\* or a directory, of any name; the Observer thread calls on_created
CreatedKinds == {"txt", "json", "log"}
CreatedEvents ==
    [src_path : CreatedKinds \X (0 .. MaxFile), is_directory : BOOLEAN]

Created(h) ==
    /\ h \in observers
    /\ \E ev \in CreatedEvents :
          /\ latest' = OnCreatedLatest(latest, h, ev)
          /\ flag' = OnCreatedFlag(flag, h, ev)
          /\ hist' = [hist EXCEPT !.lastEvent =
                          [h |-> h, src_path |-> ev.src_path,
                           is_directory |-> ev.is_directory]]
    /\ UNCHANGED <<calls, variant, pc, trial, trial_idx, json_data, pending, files,
                   observers, picoOn, pico_bound, wrong_limits, propagating,
                   ax_cur, ax_next, ax_done, ledger, setup_ok, dupLeft>>

\* ===================================================== on_created, by statement
\* The Observer thread of a handler runs on_created while the orchestrator
\* thread runs wait / clear / read; statements of the two interleave.
\* the two statements of an accepted on_created, in program order
OnCreatedOrder_setFirst == <<"set", "record">>
OnCreatedOrder == <<"record", "set">>

\* the handlers whose Signal real_match waits on
Waited == {"txt", "json", "spec"}

InitHandler ==
    /\ WatchMainInit
    /\ variant = "match"
    /\ cv = NoCall
    /\ cmp = NoCall
    /\ lg = NoCall
    /\ \E h \in Waited :
          oc = [at |-> [g \in Handlers |-> 0],       \* statements done of a call
                path |-> [g \in Handlers |-> NoPath], \* event.src_path of the call
                cons |-> "wait",                      \* the orchestrator's position
                h |-> h,                              \* the handler it waits on
                read |-> [done |-> FALSE, path |-> NoPath]]

\* the Observer thread of h enters on_created with an event the guard accepts
OcEnter(h) ==
    /\ h \in observers
    /\ oc.at[h] = 0
    /\ \E ev \in CreatedEvents :
          /\ Accepts(h, ev)
          /\ oc' = [oc EXCEPT !.at[h] = 1, !.path[h] = ev.src_path]
    /\ UNCHANGED <<main, cv, cmp, lg>>

\* the next statement of the call: assignment of the path, or Event.set()
OcStatement(h) ==
    /\ oc.at[h] \in 1 .. 2
    /\ LET st == OnCreatedOrder[oc.at[h]] IN
          /\ latest' = IF st = "record" THEN OnCreatedPath(latest, h, oc.path[h])
                                        ELSE latest
          /\ flag' = IF st = "set" THEN Event_set(flag, h) ELSE flag
    /\ oc' = [oc EXCEPT !.at[h] = IF oc.at[h] = 2 THEN 0 ELSE 2]
    /\ UNCHANGED <<calls_but_oc, variant, pc, trial, trial_idx, json_data, pending,
                   files, observers, picoOn, pico_bound, wrong_limits, propagating,
                   ax_cur, ax_next, ax_done, ledger, setup_ok, dupLeft, hist>>

\* the orchestrator: handler.new_event.wait() returns
OcWait ==
    /\ oc.cons = "wait"
    /\ Event_wait(flag, oc.h)
    /\ oc' = [oc EXCEPT !.cons = "clear"]
    /\ UNCHANGED <<main, cv, cmp, lg>>

\* the orchestrator: handler.new_event.clear()
OcClear ==
    /\ oc.cons = "clear"
    /\ flag' = Event_clear(flag, oc.h)
    /\ oc' = [oc EXCEPT !.cons = "read"]
    /\ UNCHANGED <<calls_but_oc, variant, pc, trial, trial_idx, json_data, latest,
                   pending, files, observers, picoOn, pico_bound, wrong_limits,
                   propagating, ax_cur, ax_next, ax_done, ledger, setup_ok,
                   dupLeft, hist>>

\* the orchestrator reads handler.latest_path and goes on to its next wait
OcRead ==
    /\ oc.cons = "read"
    /\ \E g \in Waited :
          oc' = [oc EXCEPT !.cons = "wait", !.h = g,
                           !.read = [done |-> TRUE, path |-> latest[oc.h]]]
    /\ UNCHANGED <<main, cv, cmp, lg>>

\* A producer writes the first artifact of kind h into its directory
Produce(h) ==
    /\ files' = FilesAfterWrite(files, <<h, 0>>)
    /\ pending' = PendingAfterWrite(pending, files, observers, <<h, 0>>)
    /\ files' # files
    /\ UNCHANGED <<calls, variant, pc, trial, trial_idx, json_data, flag, latest,
                   observers, picoOn, pico_bound, wrong_limits, propagating,
                   ax_cur, ax_next, ax_done, ledger, setup_ok, dupLeft, hist>>

\* The notification layer reports the creation of an existing artifact a
\* second time (double write of a producer, duplicate notification)
DuplicateEvent(h) ==
    /\ dupLeft > 0
    /\ h \in observers
    /\ pc \notin TerminalPcs
    /\ \E path \in files :
          /\ DirOf(path) = h
          /\ pending' = [pending EXCEPT ![h] = Append(@, path)]
    /\ dupLeft' = dupLeft - 1
    /\ UNCHANGED <<calls, variant, pc, trial, trial_idx, json_data, flag, latest, files,
                   observers, picoOn, pico_bound, wrong_limits, propagating,
                   ax_cur, ax_next, ax_done, ledger, setup_ok, hist>>

\* ------------------------------------------------------------ setup
\* Steps 0-6: limits check, device construction, Ax, observers
\* what can happen at steps 4-5: limits rejected, G2VPicoController() or its
\* first commands raise, set_integration_time fails inside the spectrometer
\* controller, tsp01.write_header raises (real_temp only)
SetupOutcomes(v) ==
    {"ok", "bad_limits", "pico_fail", "maya_cfg_fail"}
        \cup (IF v = "temp" THEN {"tsp_cfg_fail"} ELSE {})

\* device failures that are logged and not re-raised
LoggedOnly == {"maya_cfg_fail", "tsp_cfg_fail"}

\* where control goes when the limits are rejected: raise ValueError,
\* which no except clause of the run function catches
AfterInvalidLimits_goOn == "turn_on"
AfterInvalidLimits == "fin_off"

Setup ==
    /\ pc = "setup"
    /\ \E out \in SetupOutcomes(variant), pico_init \in BOOLEAN :
          \/ /\ out \in {"ok"} \cup LoggedOnly
             /\ pico_bound' = TRUE
             /\ setup_ok' = TRUE
             /\ observers' = StartedObservers(variant)
             /\ pc' = "turn_on"
             /\ hist' = [hist EXCEPT !.deviceFail = out \in LoggedOnly]
             /\ UNCHANGED <<wrong_limits, propagating>>
          \/ /\ out = "bad_limits"
             /\ wrong_limits' = TRUE
             /\ pico_bound' = pico_init
             /\ propagating' = TRUE
             /\ pc' = AfterInvalidLimits
             /\ UNCHANGED <<setup_ok, observers, hist>>
          \/ /\ out = "pico_fail"
             /\ pico_init = FALSE
             /\ propagating' = TRUE
             /\ pc' = "fin_off"
             /\ hist' = [hist EXCEPT !.deviceFail = TRUE]
             /\ UNCHANGED <<pico_bound, setup_ok, observers, wrong_limits>>
    /\ UNCHANGED <<calls, variant, trial, trial_idx, json_data, flag, latest, pending,
                   files, picoOn, ax_cur, ax_next, ax_done, ledger, dupLeft>>

\* G2VPicoController.turn_off: a call that does not raise leaves the
\* device off
turn_off_noop(on) == on
turn_off(on) == FALSE

\* pico.turn_on() before the inner try
TurnOn ==
    /\ pc = "turn_on"
    /\ \E ok \in BOOLEAN :
          IF ok THEN /\ picoOn' = TRUE
                     /\ pc' = "propose"
                     /\ hist' = [hist EXCEPT !.everOn = TRUE, !.offCalled = FALSE]
                     /\ UNCHANGED propagating
                ELSE /\ propagating' = TRUE
                     /\ pc' = "fin_off"
                     /\ UNCHANGED <<picoOn, hist>>
    /\ UNCHANGED <<calls, variant, trial, trial_idx, json_data, flag, latest, pending,
                   files, observers, pico_bound, wrong_limits, ax_cur, ax_next,
                   ax_done, ledger, setup_ok, dupLeft>>

\* ------------------------------------------------------------ the loop
\* Step 7: parameters, trial_idx = ax.get_next_trial()
Propose ==
    /\ pc = "propose"
    /\ trial_idx' = ax_next
    /\ ax_cur' = ax_next
    /\ ax_next' = ax_next + 1
    /\ pc' = FlowNext(variant, pc)
    /\ hist' = [hist EXCEPT !.proposedFor = @ \cup {trial},
                            !.done = {}, !.txtWrites = 0, !.staleWait = FALSE,
                            !.setSpectrum = 0,
                            !.created = [h \in Handlers |-> 0]]
    /\ UNCHANGED <<calls, variant, trial, json_data, flag, latest, pending, files,
                   observers, picoOn, pico_bound, wrong_limits, propagating,
                   ax_done, ledger, setup_ok, dupLeft>>

\* Step 8: save_indi_trials(trial_idx, txt_indi, parameters, None)
SaveTxt ==
    /\ pc = "save_txt"
    /\ files' = FilesAfterWrite(files, TxtPath(trial_idx))
    /\ pending' = PendingAfterWrite(pending, files, observers, TxtPath(trial_idx))
    /\ pc' = FlowNext(variant, pc)
    /\ hist' = [hist EXCEPT !.txtWrites = @ + 1,
                            !.created["txt"] = IF TxtPath(trial_idx) \in files
                                               THEN @ ELSE @ + 1]
    /\ UNCHANGED <<calls, variant, trial, trial_idx, json_data, flag, latest, observers,
                   picoOn, pico_bound, wrong_limits, propagating, ax_cur,
                   ax_next, ax_done, ledger, setup_ok, dupLeft>>

\* handler.new_*_event.wait()
Wait ==
    /\ pc \in WaitPcs
    /\ Event_wait(flag, HandlerOf(pc))
    /\ pc' = FlowNext(variant, pc)
    /\ hist' = [hist EXCEPT !.awaiting = HandlerOf(pc),
                            !.staleWait = @ \/ (pc = "wait_txt" /\ hist.lateSet["txt"]),
                            !.cleared[HandlerOf(pc)] = FALSE,
                            !.lateSet[HandlerOf(pc)] = FALSE,
                            !.midPath[HandlerOf(pc)] = NoPath,
                            !.relPath[HandlerOf(pc)] = latest[HandlerOf(pc)],
                            !.snap[HandlerOf(pc)] = NoPath,
                            !.lastRead[HandlerOf(pc)] = NoPath,
                            !.readCleared[HandlerOf(pc)] = FALSE,
                            !.done = @ \cup {pc}]
    /\ UNCHANGED <<calls, variant, trial, trial_idx, json_data, flag, latest, pending,
                   files, observers, picoOn, pico_bound, wrong_limits,
                   propagating, ax_cur, ax_next, ax_done, ledger, setup_ok, dupLeft>>

\* handler.new_*_event.clear()
Clear ==
    /\ pc \in ClearPcs
    /\ flag' = Event_clear(flag, HandlerOf(pc))
    /\ pc' = FlowNext(variant, pc)
    /\ hist' = [hist EXCEPT !.awaiting = IF @ = HandlerOf(pc) THEN "none" ELSE @,
                            !.cleared[HandlerOf(pc)] = TRUE,
                            !.snap[HandlerOf(pc)] = latest[HandlerOf(pc)],
                            !.done = @ \cup {pc}]
    /\ UNCHANGED <<calls, variant, trial, trial_idx, json_data, latest, pending, files,
                   observers, picoOn, pico_bound, wrong_limits, propagating,
                   ax_cur, ax_next, ax_done, ledger, setup_ok, dupLeft>>

\* Step 9: json_data, trial_num = txt_to_json(txt_handler.latest_txt_path);
\* the JSON artifact is written only if json_data is truthy; either way the
\* next statement is the wait on the JSON handler
Convert ==
    /\ pc = "convert"
    /\ \E outcome \in ReadOutcomes :
          LET ok == txt_to_json(latest["txt"], outcome) IN
          /\ json_data' = ok
          /\ files' = IF ok THEN FilesAfterWrite(files, JsonPath(trial_idx)) ELSE files
          /\ pending' = IF ok THEN PendingAfterWrite(pending, files, observers,
                                                     JsonPath(trial_idx))
                              ELSE pending
          /\ hist' = [hist EXCEPT
                        !.lastRead["txt"] = latest["txt"],
                        !.readCleared["txt"] = hist.cleared["txt"],
                        !.created["json"] = IF ok /\ JsonPath(trial_idx) \notin files
                                            THEN @ + 1 ELSE @,
                        !.lateCreate = @ \/ (ok /\ "wait_json" \in hist.done),
                        !.done = @ \cup (IF ok THEN {"convert", "json_written"}
                                               ELSE {"convert"})]
    /\ pc' = FlowNext(variant, pc)
    /\ UNCHANGED <<calls, variant, trial, trial_idx, flag, latest, observers, picoOn,
                   pico_bound, wrong_limits, propagating, ax_cur, ax_next,
                   ax_done, ledger, setup_ok, dupLeft>>

\* G2VPicoController.set_spectrum: one self.pico.set_spectrum call
set_spectrum(n) == n + 1

\* configure_from_txt: on a successful conversion it calls
\* self.set_spectrum(json_data) itself before returning the data
configure_from_txt(n, ok) == IF ok THEN set_spectrum(n) ELSE n

\* Step 10: pico.configure_from_txt(txt_handler.latest_txt_path); a falsy
\* result logs the error and "continue"s, a truthy one is passed to
\* pico.set_spectrum(json_pico_data)
Configure ==
    /\ pc = "configure"
    /\ \E outcome \in ReadOutcomes :
          LET ok == txt_to_json(latest["txt"], outcome) IN
          IF ok
          THEN /\ pc' = FlowNext(variant, pc)
               /\ trial' = trial
               /\ hist' = [hist EXCEPT !.cfgSrc = latest["txt"],
                                       !.setSpectrum =
                                           set_spectrum(configure_from_txt(@, ok)),
                                       !.offCalled = FALSE,
                                       !.done = @ \cup {"configure"}]
          ELSE /\ pc' = LoopNextPc(trial)
               /\ trial' = LoopNextTrial(trial)
               /\ hist' = [hist EXCEPT !.skipped = TRUE, !.hwFail = TRUE]
    /\ UNCHANGED <<calls, variant, trial_idx, json_data, flag, latest, pending, files,
                   observers, picoOn, pico_bound, wrong_limits, propagating,
                   ax_cur, ax_next, ax_done, ledger, setup_ok, dupLeft>>

\* Step 11: maya.acquire_spectrum() and maya.save_spectrum_to_json(...);
\* save_spectrum_to_json logs and swallows its own errors
Acquire ==
    /\ pc = "acquire"
    /\ \E saved \in BOOLEAN :
          /\ files' = IF saved THEN FilesAfterWrite(files, SpecPath(trial_idx)) ELSE files
          /\ pending' = IF saved THEN PendingAfterWrite(pending, files, observers,
                                                        SpecPath(trial_idx))
                                 ELSE pending
          /\ hist' = [hist EXCEPT
                        !.created["spec"] = IF saved /\ SpecPath(trial_idx) \notin files
                                            THEN @ + 1 ELSE @,
                        !.lateCreate = @ \/ (saved /\ "wait_spec" \in hist.done),
                        !.done = @ \cup {"acquire"}]
    /\ pc' = FlowNext(variant, pc)
    /\ UNCHANGED <<calls, variant, trial, trial_idx, json_data, flag, latest, observers,
                   picoOn, pico_bound, wrong_limits, propagating, ax_cur,
                   ax_next, ax_done, ledger, setup_ok, dupLeft>>

\* real_temp step 12: tsp01.monitor_and_save_stabilized_temp(trial_idx+1);
\* the per-trial file is written only "if stabilized_temp:" (non-zero)
Monitor ==
    /\ pc = "monitor"
    /\ \E reading \in {"valid", "zero"} :
          LET w == reading = "valid" IN
          /\ files' = IF w THEN FilesAfterWrite(files, TempPath(trial_idx + 1)) ELSE files
          /\ pending' = IF w THEN PendingAfterWrite(pending, files, observers,
                                                    TempPath(trial_idx + 1))
                             ELSE pending
          /\ hist' = [hist EXCEPT
                        !.created["temp"] = IF w /\ TempPath(trial_idx + 1) \notin files
                                            THEN @ + 1 ELSE @,
                        !.lateCreate = @ \/ (w /\ "wait_temp" \in hist.done),
                        !.done = @ \cup {"monitor", "objective"}]
    /\ pc' = FlowNext(variant, pc)
    /\ UNCHANGED <<calls, variant, trial, trial_idx, json_data, flag, latest, observers,
                   picoOn, pico_bound, wrong_limits, propagating, ax_cur,
                   ax_next, ax_done, ledger, setup_ok, dupLeft>>

\* load_event_spectra(spec_handler.latest_json_path) and
\* calculate_error_spec (real_match) / calculate_loss (real_temp)
Evaluate ==
    /\ pc = "evaluate"
    /\ pc' = FlowNext(variant, pc)
    /\ hist' = [hist EXCEPT
                  !.lastRead["spec"] = latest["spec"],
                  !.readCleared["spec"] = hist.cleared["spec"],
                  !.done = @ \cup (IF variant = "match" THEN {"evaluate", "objective"}
                                                        ELSE {"evaluate"})]
    /\ UNCHANGED <<calls, variant, trial, trial_idx, json_data, flag, latest, pending,
                   files, observers, picoOn, pico_bound, wrong_limits,
                   propagating, ax_cur, ax_next, ax_done, ledger, setup_ok, dupLeft>>

\* Save datas: trials.append, second save_indi_trials on the same txt path,
\* save_total_trials, save_error / save_loss, write_csv
SaveData ==
    /\ pc = "save_data"
    /\ ledger' = Append(ledger, trial_idx)
    /\ files' = FilesAfterWrite(files, TxtPath(trial_idx))
    /\ pending' = PendingAfterWrite(pending, files, observers, TxtPath(trial_idx))
    /\ pc' = FlowNext(variant, pc)
    /\ hist' = [hist EXCEPT !.txtWrites = @ + 1,
                            !.created["txt"] = IF TxtPath(trial_idx) \in files
                                               THEN @ ELSE @ + 1,
                            !.lateCreate = @ \/ TxtPath(trial_idx) \notin files,
                            !.done = @ \cup {"save_data"}]
    /\ UNCHANGED <<calls, variant, trial, trial_idx, json_data, flag, latest, observers,
                   picoOn, pico_bound, wrong_limits, propagating, ax_cur,
                   ax_next, ax_done, setup_ok, dupLeft>>

\* AxIntegration.complete_trial: the optimizer observes the trial in
\* current_trial_index when that is not None
complete_trial_drop(done, cur) == done
complete_trial(done, cur) == IF cur # NoIdx THEN done \cup {cur} ELSE done

\* Step 14/15: ax.complete_trial(...): completes current_trial_index when it
\* is not None and resets it; then the loop goes to its next iteration
Complete ==
    /\ pc = "complete"
    /\ ax_done' = complete_trial(ax_done, ax_cur)
    /\ ax_cur' = NoIdx
    /\ pc' = LoopNextPc(trial)
    /\ trial' = LoopNextTrial(trial)
    /\ hist' = [hist EXCEPT !.done = @ \cup {"complete"},
                            !.completedStale = @ \/ hist.cfgSrc # TxtPath(trial_idx)]
    /\ UNCHANGED <<calls, variant, trial_idx, json_data, flag, latest, pending, files,
                   observers, picoOn, pico_bound, wrong_limits, propagating,
                   ax_next, ledger, setup_ok, dupLeft>>

\* statements of the loop body that can raise: get_next_trial, save_indi_trials,
\* open(json_path), configure_from_txt / set_spectrum, acquisition returning
\* None (ValueError), float(None) after monitoring, load/calculate, the save
\* functions and complete_trial
RaisingPcs == {"propose", "save_txt", "convert", "configure", "acquire",
               "monitor", "evaluate", "save_data", "complete"}
HardwarePcs == {"configure", "acquire"}

\* where control goes when a statement of the loop body raises: the inner
\* try encloses the whole for loop, its handler runs once
OnTrialException(t) == "except"

\* the statements of "save datas" that raise are the save functions and
\* write_csv, which run after ax_objs.append / trials.append
LedgerOnRaise(lg0, p, idx) == IF p = "save_data" THEN Append(lg0, idx) ELSE lg0

StepRaises ==
    /\ pc \in RaisingPcs
    /\ pc' = OnTrialException(trial)
    /\ ledger' = LedgerOnRaise(ledger, pc, trial_idx)
    /\ hist' = [hist EXCEPT !.excAt = trial,
                            !.hwFail = @ \/ pc \in HardwarePcs,
                            !.openBy = IF pc = "save_data" THEN "save_failed"
                                       ELSE IF pc = "complete" THEN "complete_failed"
                                       ELSE @]
    /\ UNCHANGED <<calls, variant, trial, trial_idx, json_data, flag, latest, pending,
                   files, observers, picoOn, pico_bound, wrong_limits,
                   propagating, ax_cur, ax_next, ax_done, setup_ok, dupLeft>>

\* except Exception as e: logger.error(f'... {trial_idx+1} ...'); pico.turn_off()
Except ==
    /\ pc = "except"
    /\ pc' = "fin_off"
    /\ \E ok \in BOOLEAN :
          IF trial_idx # NoIdx /\ ok
          THEN /\ picoOn' = turn_off(picoOn)
               /\ hist' = [hist EXCEPT !.hwFail = FALSE, !.offCalled = TRUE]
               /\ UNCHANGED propagating
          ELSE /\ propagating' = TRUE
               /\ hist' = [hist EXCEPT !.offCalled = @ \/ trial_idx # NoIdx]
               /\ UNCHANGED picoOn
    /\ UNCHANGED <<calls, variant, trial, trial_idx, json_data, flag, latest, pending,
                   files, observers, pico_bound, wrong_limits, ax_cur, ax_next,
                   ax_done, ledger, setup_ok, dupLeft>>

\* KeyboardInterrupt raised in the orchestrator thread anywhere inside the
\* outer try; "except KeyboardInterrupt" absorbs it and finally runs
TryPcs == {"setup", "turn_on", "except"} \cup RaisingPcs \cup WaitPcs \cup ClearPcs
Interrupt ==
    /\ pc \in TryPcs
    /\ pc' = "fin_off"
    /\ propagating' = FALSE
    /\ hist' = [hist EXCEPT !.interrupted = TRUE,
                            !.openBy = IF pc = "complete" THEN "interrupted" ELSE @]
    /\ UNCHANGED <<calls, variant, trial, trial_idx, json_data, flag, latest, pending,
                   files, observers, picoOn, pico_bound, wrong_limits, ax_cur,
                   ax_next, ax_done, ledger, setup_ok, dupLeft>>

\* ------------------------------------------------------------ finally
\* finally: pico.turn_off()
FinOff ==
    /\ pc = "fin_off"
    /\ \E ok \in BOOLEAN :
          IF pico_bound /\ ok
          THEN /\ picoOn' = turn_off(picoOn)
               /\ pc' = IF variant = "temp" THEN "fin_monitor" ELSE "fin_report"
               /\ hist' = [hist EXCEPT !.hwFail = FALSE, !.offCalled = TRUE]
               /\ UNCHANGED propagating
          ELSE /\ propagating' = TRUE
               /\ pc' = "raised"
               /\ hist' = [hist EXCEPT !.offCalled = @ \/ pico_bound]
               /\ UNCHANGED picoOn
    /\ UNCHANGED <<calls, variant, trial, trial_idx, json_data, flag, latest, pending,
                   files, observers, pico_bound, wrong_limits, ax_cur, ax_next,
                   ax_done, ledger, setup_ok, dupLeft>>

\* real_temp finally: tsp01.monitor_and_save_stabilized_temp(trial_idx+2)
FinMonitor ==
    /\ pc = "fin_monitor"
    /\ \E reading \in {"valid", "zero", "none"} :
          IF setup_ok /\ trial_idx # NoIdx
          THEN LET w == reading = "valid" IN
               /\ files' = IF w THEN FilesAfterWrite(files, TempPath(trial_idx + 2))
                                ELSE files
               /\ pending' = IF w THEN PendingAfterWrite(pending, files, observers,
                                                         TempPath(trial_idx + 2))
                                  ELSE pending
               /\ pc' = "fin_report"
               /\ UNCHANGED propagating
          ELSE /\ reading = "none"
               /\ propagating' = TRUE
               /\ pc' = "raised"
               /\ UNCHANGED <<files, pending>>
    /\ UNCHANGED <<calls, variant, trial, trial_idx, json_data, flag, latest, observers,
                   picoOn, pico_bound, wrong_limits, ax_cur, ax_next, ax_done,
                   ledger, setup_ok, dupLeft, hist>>

\* finally, "if wrong_limits==False": ax.get_best_parameters() and
\* lowest_error_file(..., error_file / loss_file); error_file and loss_file
\* are bound only by the save-datas step of a trial
FinReport ==
    /\ pc = "fin_report"
    /\ \E ok \in BOOLEAN :
          IF wrong_limits
          THEN /\ ok
               /\ pc' = IF propagating THEN "raised" ELSE "returned"
               /\ UNCHANGED <<propagating, hist>>
          ELSE /\ hist' = [hist EXCEPT !.bestAsked = TRUE]
               /\ IF setup_ok /\ ledger # <<>> /\ ok
                  THEN /\ pc' = "fin_stop"
                       /\ UNCHANGED propagating
                  ELSE /\ propagating' = TRUE
                       /\ pc' = "raised"
    /\ UNCHANGED <<calls, variant, trial, trial_idx, json_data, flag, latest, pending,
                   files, observers, picoOn, pico_bound, wrong_limits, ax_cur,
                   ax_next, ax_done, ledger, setup_ok, dupLeft>>

\* observers the finally block stops and joins: observer_txt and
\* observer_json (real_temp stops observer_json a second time under
\* "if observer_temp")
StoppedObservers(v) == {"txt", "json"}

\* finally: stop/join of the observers, then the plots
FinStop ==
    /\ pc = "fin_stop"
    /\ observers' = observers \ StoppedObservers(variant)
    /\ \E ok \in BOOLEAN :
          IF ok THEN /\ pc' = IF propagating THEN "raised" ELSE "returned"
                     /\ UNCHANGED propagating
                ELSE /\ propagating' = TRUE
                     /\ pc' = "raised"
    /\ UNCHANGED <<calls, variant, trial, trial_idx, json_data, flag, latest, pending,
                   files, picoOn, pico_bound, wrong_limits, ax_cur, ax_next,
                   ax_done, ledger, setup_ok, dupLeft, hist>>

\* ------------------------------------------------------------ specification
Orchestrator ==
    \/ Setup \/ TurnOn \/ Propose \/ SaveTxt \/ Wait \/ Clear \/ Convert
    \/ Configure \/ Acquire \/ Monitor \/ Evaluate \/ SaveData \/ Complete
    \/ StepRaises \/ Except \/ Interrupt
    \/ FinOff \/ FinMonitor \/ FinReport \/ FinStop

Watchers == \E h \in Handlers : Deliver(h)

Duplicates == \E h \in Handlers : DuplicateEvent(h)

Next == Orchestrator \/ Watchers \/ Duplicates

Spec == Init /\ [][Next]_vars

\* every file creation delivers exactly one creation event
NextWatch ==
    \/ \E h \in Handlers : Created(h)
    \/ \E h \in Handlers : Produce(h)
    \/ \E h \in Handlers : Deliver(h)
SpecWatch == InitWatch /\ [][NextWatch]_vars

NextConv == ReadAttempt
SpecConv == InitConv /\ [][NextConv]_vars

NextCmp == Compare
SpecCmp == InitCmp /\ [][NextCmp]_vars

NextLedger == SaveError \/ LowestErrorFile
SpecLedger == InitLedger /\ [][NextLedger]_vars

NextHandler ==
    \/ \E h \in Handlers : OcEnter(h)
    \/ \E h \in Handlers : OcStatement(h)
    \/ OcWait
    \/ OcClear
    \/ OcRead
SpecHandler == InitHandler /\ [][NextHandler]_vars

NextOnce == Orchestrator \/ Watchers

SpecOnce == Init /\ [][NextOnce]_vars

\* ================================================================ properties
\* path the artifact of kind h has in the trial with index idx
ExpectedPath(h, idx) ==
    CASE h = "txt"  -> TxtPath(idx)
      [] h = "json" -> JsonPath(idx)
      [] h = "spec" -> SpecPath(idx)
      [] OTHER      -> TempPath(idx + 1)

\* C1: when txt_to_json returned (None, None) in step 9 the orchestrator does
\* not go on to wait on the ConvertedParams Signal of that trial
C1_SkipOnConversionFailure == pc = "wait_json" => json_data

\* C2: an exception in trial N, N not the last configured trial, is followed
\* by the proposal of the next trial; so a finished run that had such an
\* exception has proposed trial N+1
C2_RunContinuesAfterException ==
    (pc \in TerminalPcs /\ hist.excAt # NoIdx /\ hist.excAt < NumTrials - 1)
        => (hist.excAt + 1) \in hist.proposedFor

\* C3: after a trial was aborted for a hardware failure, pico.turn_off has
\* been called before a further trial is proposed
C3_OffBeforeNextProposal == ~(pc = "save_txt" /\ hist.hwFail)

\* C4 (as stated): the step following a wait reads the handler's latest path
\* before the Signal is cleared
C4_ReadBeforeClear ==
    \A h \in Handlers : hist.lastRead[h] # NoPath => ~hist.readCleared[h]

\* C4 (amended): the Signal is cleared before the following step reads the
\* handler's latest path; the path read is the one recorded at the clear
\* unless a creation event was dispatched after the clear
C4_ClearBeforeRead ==
    \A h \in Handlers :
        hist.lastRead[h] # NoPath =>
            /\ hist.readCleared[h]
            /\ (hist.lastRead[h] = hist.snap[h] \/ hist.lateSet[h])

\* an event dispatched between clear and read changed the path the step used
C4_Witness ==
    \E h \in Handlers :
        /\ hist.lastRead[h] # NoPath
        /\ hist.readCleared[h]
        /\ hist.lastRead[h] # hist.snap[h]

\* C5: a creation event dispatched after the orchestrator's clear leaves the
\* Signal set until the next wait on it, so that wait returns without a new
\* event (no step checks the trial index of the path)
C5_LateEventKeepsSignalSet ==
    \A h \in Handlers : hist.lateSet[h] => flag[h]

\* the txt wait of a trial returned on an event dispatched after the clear of
\* the previous trial, and the trial was completed at the optimizer although
\* the hardware was configured from the text file of the previous trial
C5_Witness ==
    /\ hist.staleWait
    /\ hist.completedStale
    /\ "complete" \in hist.done
    /\ trial_idx >= 1
    /\ hist.cfgSrc = TxtPath(trial_idx - 1)
    /\ trial_idx \in ax_done

\* C6: with exactly one creation event per file creation, once a trial was
\* skipped every Signal is clear (and no event is outstanding) when the next
\* trial begins, and every wait of a later trial returns on the path of the
\* artifact created in that trial
C6_NoStaleAfterSkip ==
    /\ (hist.skipped /\ pc = "propose") =>
           \A h \in Handlers : ~flag[h] /\ pending[h] = <<>>
    /\ (hist.skipped /\ pc \in ClearPcs) =>
           latest[HandlerOf(pc)] = ExpectedPath(HandlerOf(pc), trial_idx)

\* a wait of the trial after a skipped trial has returned
C6_Witness ==
    /\ hist.skipped
    /\ pc \in ClearPcs
    /\ trial >= 1

\* C7 (as stated): the ProposedParams text file is written exactly once
\* during a trial
C7_TxtWrittenOnce ==
    /\ hist.txtWrites <= 1
    /\ ("complete" \in hist.done => hist.txtWrites = 1)

\* C7 (amended): each artifact file is created at most once per trial and
\* never after the wait on its kind has returned; the text file is written
\* once before its wait and a second time, in place, by the save-datas step,
\* so a completed trial has written it twice
C7_CreatedOnceWrittenTwice ==
    /\ \A h \in Handlers : hist.created[h] <= 1
    /\ ~hist.lateCreate
    /\ hist.txtWrites <= 2
    /\ ("wait_txt" \in hist.done /\ "save_data" \notin hist.done => hist.txtWrites = 1)
    /\ ("complete" \in hist.done => hist.txtWrites = 2)

\* a completed trial, its text file written twice and created once
C7_Witness ==
    /\ "complete" \in hist.done
    /\ hist.txtWrites = 2
    /\ hist.created["txt"] = 1

\* C8 (as stated): an orchestrator waiting on a clear Signal never leaves
\* the wait
C8_BlockedForever ==
    [][(pc \in WaitPcs /\ ~flag[HandlerOf(pc)]) => pc' = pc]_vars

\* C8 (amended): an orchestrator waiting on a clear Signal leaves the wait
\* only by a KeyboardInterrupt, which takes it to the finally block
C8_BlockedUntilInterrupt ==
    [][(pc \in WaitPcs /\ ~flag[HandlerOf(pc)]) =>
          \/ pc' = pc
          \/ (pc' = "fin_off" /\ ~hist.interrupted /\ hist'.interrupted)]_vars

\* the orchestrator waits on a clear Signal and no event is outstanding
C8_Witness ==
    /\ pc = "wait_json"
    /\ ~json_data
    /\ ~flag["json"]
    /\ pending["json"] = <<>>
    /\ dupLeft = 0

\* C9: within a trial the JSON artifact is written only after the txt wait
\* returned, the hardware is configured only after the JSON wait returned,
\* the spectrum is measured only after a successful configuration, the
\* objective is computed only after the spectrum wait returned, and
\* complete_trial is called only after the objective was computed
C9_PipelineOrder ==
    /\ ("json_written" \in hist.done => "wait_txt" \in hist.done)
    /\ ("configure" \in hist.done => "wait_json" \in hist.done)
    /\ ("acquire" \in hist.done => "configure" \in hist.done)
    /\ ("objective" \in hist.done => "wait_spec" \in hist.done)
    /\ ("complete" \in hist.done => "objective" \in hist.done)

\* a trial went through the whole pipeline
C9_Witness ==
    /\ "complete" \in hist.done
    /\ "json_written" \in hist.done
    /\ ax_cur = NoIdx

\* C10: after a wait on a Signal has returned, the next statement of the
\* orchestrator is the clear of that Signal (only a KeyboardInterrupt, which
\* ends the loop, can come between)
C10_WaitThenClear ==
    hist.awaiting # "none" =>
        \/ (pc \in ClearPcs /\ HandlerOf(pc) = hist.awaiting)
        \/ (hist.interrupted /\ pc \in FinallyPcs \cup TerminalPcs)

\* a wait has returned and its clear is the next statement
C10_Witness ==
    /\ hist.awaiting = "spec"
    /\ pc = "clear_spec"
    /\ flag["spec"]


\* ------------------------------------------------------------------ C11
\* what one call on_created(event) of handler h may change
OnCreatedFrame(h, path, isdir) ==
    LET ext == IF h \in {"txt", "temp"} THEN ".txt" ELSE ".json"
        hit == ~isdir /\ ExtOf(path) = ext
    IN  /\ \A g \in Handlers \ {h} :
              flag'[g] = flag[g] /\ latest'[g] = latest[g]
        /\ hit => flag'[h] /\ latest'[h] = path
        /\ ~hit => flag'[h] = flag[h] /\ latest'[h] = latest[h]
        /\ flag[h] => flag'[h]
        /\ UNCHANGED <<pc, trial, trial_idx, json_data, files, observers,
                       picoOn, ax_cur, ax_next, ax_done, ledger>>

\* C11: on_created records the path and sets its own Signal exactly when the
\* created object is a regular file whose name ends with the handler's
\* extension; otherwise path and Signal stay as they were; it never clears a
\* Signal and never touches another handler's path or Signal, nor anything
\* else of the run
C11_OnCreatedOnlySets ==
    [][ /\ \A h \in Handlers :
              Len(pending'[h]) < Len(pending[h])
                  => OnCreatedFrame(h, Head(pending[h]), FALSE)
        /\ hist'.lastEvent # hist.lastEvent
              => OnCreatedFrame(hist'.lastEvent.h, hist'.lastEvent.src_path,
                                hist'.lastEvent.is_directory) ]_vars

\* a directory named like an artifact was created in the txt directory
\* after a txt file had set the Signal; the json Signal is still clear
C11_Witness ==
    /\ hist.lastEvent.h = "txt"
    /\ hist.lastEvent.is_directory
    /\ ExtOf(hist.lastEvent.src_path) = ".txt"
    /\ flag["txt"] /\ latest["txt"] = <<"txt", 0>>
    /\ ~flag["json"] /\ latest["json"] = NoPath
    /\ pending["spec"] # <<>>

\* ------------------------------------------------------------------ C12
\* C12: once validate_experiment_limits has rejected the limits, the optimizer
\* is never asked for a proposal, the light source is never turned on, the
\* finally block skips best-parameter extraction and the plots, and the run
\* function is left by an exception, never by a normal return
C12_InvalidLimitsAbort ==
    wrong_limits =>
        /\ hist.proposedFor = {} /\ ax_next = 0
        /\ ~picoOn /\ ~hist.everOn
        /\ ~hist.bestAsked /\ pc # "fin_stop"
        /\ pc \in FinallyPcs \cup {"raised"}
        /\ propagating

\* the rejected run has left the run function
C12_Witness == wrong_limits /\ pc = "raised" /\ pico_bound

\* ------------------------------------------------------------------ C13
\* C13: if initialising or configuring the light source, the spectrometer or
\* the temperature sensor fails during setup, no trial is ever proposed
C13_DeviceFailureAborts == hist.deviceFail => hist.proposedFor = {}

\* ---------------------------------------------------- converter claims
\* the first attempt whose read is not of the kinds in skip, 0 if none
FirstOther(sc, skip) ==
    LET ks == {k \in 1 .. 5 : sc[k] \notin skip}
    IN  IF ks = {} THEN 0 ELSE SetMin(ks)

\* C14: a file missing at the first attempt and readable with
\* valid content at a later attempt within the bound is converted
C14_MissingThenReadable ==
    /\ cv.state = "returned"
    /\ cv.src.i # -1
    /\ cv.script[1] = "missing"
    /\ FirstOther(cv.script, {"missing", "ioerror"}) # 0
    /\ cv.script[FirstOther(cv.script, {"missing", "ioerror"})] = "ok"
    => cv.result.ok

\* C15: a file that is empty on every read costs exactly 5 reads with a
\* sleep between consecutive reads and none after the last, and yields
\* (None, None); whatever the file does, there are never more than 5 reads,
\* and a call that has not returned has made fewer than 5 of them, so its
\* next iteration runs and the call returns within 5 iterations
C15_EmptyFileFiveReads ==
    /\ cv.state = "returned" /\ (\A k \in 1 .. 5 : cv.script[k] = "empty")
          => /\ cv.log = <<"read", "sleep", "read", "sleep", "read", "sleep",
                          "read", "sleep", "read">>
             /\ ~cv.result.ok
    /\ Cardinality({k \in 1 .. Len(cv.log) : cv.log[k] = "read"}) <= 5
    /\ Cardinality({k \in 1 .. Len(cv.log) : cv.log[k] = "read"}) = cv.attempt_count
    /\ cv.state = "running" => cv.attempt_count < 5
    /\ cv.state \in {"running", "returned"}

\* the call on the always-empty file has returned
C15_Witness ==
    /\ cv.state = "returned"
    /\ \A k \in 1 .. 5 : cv.script[k] = "empty"
    /\ Len(cv.log) = 9

\* the line loop finds no trial index or no parameters
Malformed(lines) ==
    \/ ParseLines(lines).trial_number = <<>>
    \/ ~ParseLines(lines).parameters.ok
    \/ ParseLines(lines).parameters.items = <<>>

\* C16: non-empty content in which no trial index or no parameters are found
\* makes the call return (None, None) at the attempt that read it: no
\* further read, no sleep
C16_MalformedNotRetried ==
    LET k == FirstOther(cv.script, {"ioerror", "empty"})
    IN  /\ k # 0 /\ cv.script[k] = "ok"
        /\ Malformed(cv.lines)
        /\ cv.attempt_count >= k
        => /\ cv.state = "returned"
           /\ ~cv.result.ok
           /\ cv.attempt_count = k
           /\ cv.log[Len(cv.log)] = "read"

\* an empty read, then content without parameters
C16_Witness ==
    /\ cv.state = "returned"
    /\ cv.script[1] = "empty" /\ cv.script[2] = "ok"
    /\ cv.lines # <<>> /\ Malformed(cv.lines)
    /\ cv.attempt_count = 2

\* C17: txt_to_json on the text save_indi_trials(i, path, parameters, None)
\* wrote yields the trial number i+1 as a decimal string and one
\* {channel, value} entry per parameter, in the original order, the channel
\* reduced to its digits and the value unchanged
C17_RoundTrip ==
    cv.state = "returned" /\ cv.script[1] = "ok" /\ cv.src.i # -1 =>
        /\ cv.result.ok
        /\ cv.result.trial_number # <<>>
        /\ \A k \in 1 .. Len(cv.result.trial_number) :
              IsDigit(cv.result.trial_number[k])
        /\ (Len(cv.result.trial_number) = 1 \/ cv.result.trial_number[1] # "0")
        /\ ParseDecimal(cv.result.trial_number) = cv.src.i + 1
        /\ Len(cv.result.data) = Len(cv.src.pm)
        /\ \A k \in 1 .. Len(cv.src.pm) :
              /\ cv.result.data[k].channel = SelectSeq(cv.src.pm[k][1], IsDigit)
              /\ cv.result.data[k].value = cv.src.pm[k][2]

\* trial index 9 with two channels went through the round trip
C17_Witness ==
    /\ cv.state = "returned" /\ cv.script[1] = "ok"
    /\ cv.src.i = 9 /\ Len(cv.src.pm) = 2
    /\ cv.result.ok
    /\ cv.result.trial_number = <<"1", "0">>
    /\ cv.result.data[2].value = 105

\* the text after the 11-character prefix of a recognised parameters line
PayloadOf(line) == SubSeq(Strip(line), 12, Len(Strip(line)))

\* C18: every line whose prefix equals "parameters:" in any letter case and
\* that carries a valid mapping literal yields the mapping, so the
\* conversion succeeds whenever the file also has a valid trial line
C18_AnyCaseParametersLine ==
    /\ cv.state = "returned" /\ cv.script[1] = "ok"
    /\ \E k \in 1 .. Len(cv.lines) :
          IsTrialLine(Strip(cv.lines[k])) /\ TrialMatch(Strip(cv.lines[k])) # <<>>
    /\ \E k \in 1 .. Len(cv.lines) : IsParametersLine(Strip(cv.lines[k]))
    /\ \A k \in 1 .. Len(cv.lines) :
          IsParametersLine(Strip(cv.lines[k]))
              => /\ Eval(PayloadOf(cv.lines[k])).ok
                 /\ Eval(PayloadOf(cv.lines[k])).items # <<>>
    => cv.result.ok

\* --------------------------------------------------- comparator claims
\* the wavelengths of a spectrum, each rounded to the nearest integer
Rounded(sp) == {RoundHalfEven(sp[k][1]) : k \in 1 .. Len(sp)}

\* C19: for every pair of spectra whose rounded wavelength sets are
\* disjoint the comparator raises the "no overlapping wavelengths"
\* ValueError and never returns a number
C19_DisjointRaises ==
    /\ cmp.state # "called"
    /\ Rounded(cmp.current) \cap Rounded(cmp.target) = {}
    => cmp.state = "raised"

\* C20: for a current and a target spectrum that are identical after
\* rounding the wavelengths to the nearest integer and dropping duplicates
\* (first kept), the comparator returns discrepancy 0 and the intensities
\* compared at every common integer wavelength are equal
C20_IdenticalGivesZero ==
    /\ cmp.state # "called"
    /\ process_spectra(cmp.current) = process_spectra(cmp.target)
    => /\ cmp.state = "returned"
       /\ cmp.result.zero
       /\ cmp.result.obj1 = cmp.result.obj2

\* ------------------------------------------------------------------ C21
\* squared L2 distance of the two normalised vectors as <<numerator,
\* denominator>>, the 1e-10 guard left out; a constant vector normalises to 0
NormSquared(obj1, obj2) ==
    LET S1 == {obj1[k] : k \in 1 .. Len(obj1)}
        S2 == {obj2[k] : k \in 1 .. Len(obj2)}
        r1 == IF SetMax(S1) = SetMin(S1) THEN 1 ELSE SetMax(S1) - SetMin(S1)
        r2 == IF SetMax(S2) = SetMin(S2) THEN 1 ELSE SetMax(S2) - SetMin(S2)
        d(k) == (obj1[k] - SetMin(S1)) * r2 - (obj2[k] - SetMin(S2)) * r1
        RECURSIVE sum(_)
        sum(k) == IF k = 0 THEN 0 ELSE d(k) * d(k) + sum(k - 1)
    IN  <<sum(Len(obj1)), r1 * r1 * r2 * r2>>

\* C21: for current {400.4: 10, 500.6: 20} and target {"400": 12, "500": 18}
\* the comparator finds the common wavelengths {400, 500}, compares [10, 20]
\* with [12, 18] and returns the L2 norm sqrt(2) (squared: 2)
C21_ScenarioSqrtTwo ==
    /\ cmp.state # "called"
    /\ cmp.current = ScenarioCurrent /\ cmp.target = ScenarioTarget
    => /\ cmp.state = "returned"
       /\ cmp.result.keys = <<400, 500>>
       /\ cmp.result.obj1 = <<10, 20>> /\ cmp.result.obj2 = <<12, 18>>
       /\ NormSquared(cmp.result.obj1, cmp.result.obj2)[1]
             = 2 * NormSquared(cmp.result.obj1, cmp.result.obj2)[2]

\* C21 (amended): for these spectra 500.6 rounds to 501, so 400 is the only
\* common wavelength; the comparator compares [10] with [12], both
\* normalise to [0], and the discrepancy returned is 0
C21_ScenarioZero ==
    /\ cmp.state # "called"
    /\ cmp.current = ScenarioCurrent /\ cmp.target = ScenarioTarget
    => /\ cmp.state = "returned"
       /\ cmp.result.keys = <<400>>
       /\ cmp.result.obj1 = <<10>> /\ cmp.result.obj2 = <<12>>
       /\ cmp.result.zero
       /\ NormSquared(cmp.result.obj1, cmp.result.obj2)[1] = 0

\* the comparator has returned on the scenario's spectra
C21_Witness ==
    /\ cmp.state = "returned"
    /\ cmp.current = ScenarioCurrent /\ cmp.target = ScenarioTarget

\* ------------------------------------------------------------------ C22
\* C22: after a spectral-matching run in which at least one trial was
\* evaluated, the value lowest_error_file appends to Lowest_errors.txt is the
\* minimum of the error values save_error logged in the run's error file
C22_LowestIsMinimum ==
    lg.state = "reported" =>
        /\ ~lg.lowest.inf
        /\ \E k \in 1 .. Len(lg.file) : lg.lowest.value = lg.errors[k]
        /\ \A k \in 1 .. Len(lg.file) : lg.lowest.value <= lg.errors[k]

\* ------------------------------------------------------------------ C23
\* C23: in real_temp, when the monitoring of a trial has yielded a
\* stabilized reading in the accepted range (0 included), the trial's
\* stabilized-temperature file has been written when the orchestrator
\* waits on the StabilizedTemp Signal
C23_ValidReadingWritesFile ==
    pc = "wait_temp" /\ "monitor" \in hist.done
        => TempPath(trial_idx + 1) \in files

\* ------------------------------------------------------------------ C24
\* C24: a watcher records the created path before it sets the flag: in every
\* reachable state a set Signal implies that the handler's latest path is
\* not None, and the path the orchestrator reads after a wait has returned
\* is never None
C24_SetImpliesPath ==
    /\ \A h \in Handlers : flag[h] => latest[h] # NoPath
    /\ oc.read.done => oc.read.path # NoPath

\* the orchestrator has read a path while an on_created call of another
\* handler stood between its two statements
C24_Witness ==
    /\ oc.read.done /\ oc.read.path = <<"txt", 0>>
    /\ oc.at["json"] = 2
    /\ ~flag["json"] /\ latest["json"] # NoPath

\* ---------------------------------------------------------------- C25
\* C25: whenever the orchestrator is about to call get_next_trial, the
\* optimizer's current_trial_index is None: the trial proposed before has
\* been completed.
C25_ProposeWithNoOpenTrial == pc = "propose" => ax_cur = NoIdx

\* ---------------------------------------------------------------- C26
\* C26: in a trial whose hardware configuration succeeded, the device's
\* set_spectrum has been called exactly once.
C26_SpectrumSetOnce == "configure" \in hist.done => hist.setSpectrum = 1

\* ---------------------------------------------------------------- C27
\* C27: when the run function has returned normally, every observer that
\* was started has been stopped and joined.
C27_AllObserversStopped == pc = "returned" => observers = {}

\* ---------------------------------------------------------------- C28
\* C28: once the light source has been turned on, the run function ends
\* only after turn_off was called later than the last call that drives the
\* source (turn_on, set_spectrum), and when it returns the source is off.
C28_OffAfterLastDrive ==
    /\ (pc \in TerminalPcs /\ hist.everOn) => hist.offCalled
    /\ (pc = "returned" /\ hist.everOn) => ~picoOn

\* a run interrupted after its first trial was recorded returns with the
\* source off
C28_Witness ==
    /\ pc = "returned" /\ hist.everOn /\ hist.interrupted
    /\ "configure" \in hist.done
    /\ hist.offCalled /\ ~picoOn

\* ---------------------------------------------------------------- C29
\* C29 (as stated): the optimizer has observed at most as many trials as the
\* ledger has records, and fewer exactly when a complete_trial call failed.
C29_SmallerOnlyOnFailure ==
    /\ Cardinality(ax_done) <= Len(ledger)
    /\ Cardinality(ax_done) < Len(ledger) <=> hist.openBy = "complete_failed"

\* C29 (amended): the optimizer has observed at most as many trials as the
\* ledger has records and at most one fewer; it has observed fewer exactly
\* when the last record's complete_trial has not returned yet or the loop
\* ended between the append and the completion: a save function or
\* complete_trial raised, or KeyboardInterrupt arrived before the call.
C29_ObservedAtMostRecorded ==
    /\ Cardinality(ax_done) <= Len(ledger)
    /\ Len(ledger) <= Cardinality(ax_done) + 1
    /\ Cardinality(ax_done) < Len(ledger)
          <=> (pc = "complete" \/ hist.openBy # "none")

\* the run function has ended with one record the optimizer never observed,
\* although no complete_trial call failed
C29_Witness ==
    /\ pc \in TerminalPcs
    /\ hist.openBy = "save_failed"
    /\ Len(ledger) = 2 /\ Cardinality(ax_done) = 1

\* ---------------------------------------------------------------- C30
\* C30: a creation event dispatched after a wait returned and before the
\* clear that follows it is erased by that clear: the handler's latest path
\* at the clear is the event's file, the Signal stays clear until another
\* event is dispatched, and the step after the clear reads the event's file.
C30_ClearErasesMidEvent ==
    \A h \in Handlers :
        (hist.midPath[h] # NoPath /\ hist.cleared[h]) =>
            /\ hist.snap[h] = hist.midPath[h]
            /\ (~hist.lateSet[h] => ~flag[h])
            /\ (hist.lastRead[h] # NoPath /\ ~hist.lateSet[h]
                    => hist.lastRead[h] = hist.midPath[h])

\* the txt wait of the second trial returned on an event of the first
\* trial's file; the event of the second trial's file came before the clear,
\* was erased by it, and the conversion read the second trial's file
C30_Witness ==
    /\ trial_idx = 1
    /\ hist.relPath["txt"] = TxtPath(0)
    /\ hist.midPath["txt"] = TxtPath(1)
    /\ hist.cleared["txt"] /\ ~hist.lateSet["txt"] /\ ~flag["txt"]
    /\ hist.lastRead["txt"] = TxtPath(1)
    /\ pending["txt"] = <<>>
====
